---------------------------- MODULE Spec2Model ----------------------------
(***************************************************************************)
(* Frame loop of src/main.rs: physics step, debug draw, animation clock,   *)
(* sprite draw, keyboard input mapped to forces and animation selection,   *)
(* end-of-frame yield.                                                     *)
(*                                                                         *)
(* Time is in milliseconds (Duration::as_millis).  The rigid-body solver   *)
(* is an external library: step() is modelled by its contract, one         *)
(* semi-implicit Euler step over the queued external accelerations with    *)
(* the time step taken as the unit of time; gravity and contacts are       *)
(* solver internals and are left out.                                      *)
(***************************************************************************)
EXTENDS Integers, Sequences, FiniteSets, TLC

(* ------------------------------ bounds -------------------------------- *)
\* number of loop iterations explored
MaxFrames == 2
\* milliseconds that may pass between the two clock reads of a wrap
MaxLag == 1
\* wall-clock milliseconds one iteration may take (next_frame().await)
FrameDeltas == {200, 750, 800, 1050}

(* ------------------------- program constants -------------------------- *)
\* let step = 200.0;
step == 200
\* magnitude of the forces built in the input phase
Fx == 250
Fy == 250
\* screen_width() of the default window
ScreenWidth == 800

\* load_idle_animation / load_run_animation / load_attack1_animation
idle_animation == <<"idle-2-00", "idle-2-01", "idle-2-02", "idle-2-03">>
run_animation == <<"run-01", "run-02", "run-03", "run-04", "run-05">>
attack_1_animation ==
    <<"attack1-00", "attack1-01", "attack1-02", "attack1-03", "attack1-04">>
\* let animations = vec![idle_animation, run_animation, attack_1_animation];
\* (Rust indexes from 0, TLA+ sequences from 1)
animations == <<idle_animation, run_animation, attack_1_animation>>
AnimLen(a) == Len(animations[a + 1])

\* is_key_down for the four keys, constant within one frame
KeyStates == [Right : BOOLEAN, Left : BOOLEAN, Space : BOOLEAN, Z : BOOLEAN]

VARIABLES
    pc,                 \* statement of the loop body about to run
    frame,              \* loop iteration, from 1
    now,                \* wall clock, ms
    timeline,           \* let mut timeline = Instant::now()
    current_frame,      \* let mut current_frame = 0
    current_animation,  \* let mut current_animation = 0
    flip,               \* let mut flip = false
    bodies,             \* DefaultBodySet: sequence of rigid bodies
    keys,               \* keyboard state seen by this frame's is_key_down
    steps,              \* history: number of step() calls so far
    draws,              \* history: number of sprite draws so far
    stepPos,            \* history: hero position right after the last step()
    sprite,             \* history: arguments of the last draw_texture_ex
    integrated,         \* history: <<frame a force was applied in, step() call
                        \*            that integrated it>>
    wrapped,            \* history: did the last clock evaluation wrap
    colliders,          \* DefaultColliderSet: sequence of colliders
    held,               \* history: keyboard state of every frame so far
    applied             \* history: every apply_force call so far

vars == <<pc, frame, now, timeline, current_frame, current_animation, flip,
          bodies, keys, steps, draws, stepPos, sprite, integrated, wrapped,
          colliders, held, applied>>

(* ------------------------------ bodies -------------------------------- *)
\* the handle is taken before the insertion
GameObjectNewStaleHandle(x, y, bs, cs, width, height, mass, density) ==
    [bodies |-> Append(bs, [pos |-> <<x, y>>, vel |-> <<0, 0>>,
                            mass |-> mass, queued |-> <<>>]),
     colliders |-> Append(cs, [body |-> Len(bs), half_extents |-> <<width, height>>,
                               density |-> density, offset |-> <<0, -1>>]),
     object |-> [body_handle |-> Len(bs), collider_handle |-> Len(cs),
                 width |-> width, height |-> height]]
\* GameObject::new: insert one body and one collider attached to it, keep
\* the two handles
GameObjectNew(x, y, bs, cs, width, height, mass, density) ==
    [bodies |-> Append(bs, [pos |-> <<x, y>>, vel |-> <<0, 0>>,
                            mass |-> mass, queued |-> <<>>]),
     colliders |-> Append(cs, [body |-> Len(bs) + 1,
                               half_extents |-> <<width, height>>,
                               density |-> density, offset |-> <<0, -1>>]),
     object |-> [body_handle |-> Len(bs) + 1, collider_handle |-> Len(cs) + 1,
                 width |-> width, height |-> height]]

SetupGround ==
    GameObjectNew(ScreenWidth \div 2, 480, <<>>, <<>>, ScreenWidth, 10, 0, 0)
SetupBlock ==
    GameObjectNew(100, 400, SetupGround.bodies, SetupGround.colliders,
                  10, 10, 75, 1)
SetupHero ==
    GameObjectNew(10, 350, SetupBlock.bodies, SetupBlock.colliders,
                  10, 10, 75, 1)
ground == SetupGround.object
block == SetupBlock.object
hero == SetupHero.object

\* GameObject::rigid_body(..).position().translation.vector
Position(obj, bs) == bs[obj.body_handle].pos

\* velocity change per step that a force of the given type gives a body:
\* an acceleration change does not depend on the mass, a plain force is
\* divided by it
Acceleration(force_type, f, mass) ==
    IF force_type = "AccelerationChange" THEN f
    ELSE <<f[1] \div mass, f[2] \div mass>>

\* the force is applied as ForceType::Force
ApplyForceAsForce(bs, obj, f, at) ==
    LET h == obj.body_handle IN
    IF bs[h].mass = 0 THEN bs
    ELSE [bs EXCEPT ![h].queued =
             Append(@, [v |-> Acceleration("Force", f, bs[h].mass), at |-> at])]
\* rigid_body_mut(..).apply_force(0, &force, AccelerationChange, false):
\* the force is queued on the body until the next step(); a body without
\* mass ignores it.  `at` remembers the frame of the call.
ApplyForce(bs, obj, f, at) ==
    LET h == obj.body_handle IN
    IF bs[h].mass = 0 THEN bs
    ELSE [bs EXCEPT ![h].queued =
             Append(@, [v |-> Acceleration("AccelerationChange", f, bs[h].mass),
                        at |-> at])]

RECURSIVE SumForces(_)
SumForces(q) ==
    IF q = <<>> THEN <<0, 0>>
    ELSE LET r == SumForces(Tail(q)) IN
         <<Head(q).v[1] + r[1], Head(q).v[2] + r[2]>>

\* one step of one body: the queued accelerations change the velocity, the
\* new velocity changes the position, the queue is cleared
Integrate(b) ==
    LET a == SumForces(b.queued)
        v == <<b.vel[1] + a[1], b.vel[2] + a[2]>>
    IN [b EXCEPT !.vel = v,
                 !.pos = <<b.pos[1] + v[1], b.pos[2] + v[2]>>,
                 !.queued = <<>>]

(* ------------------------- animation clock ---------------------------- *)
\* wrap only once a whole further frame duration has passed on the last frame
WrapsPastEnd(elapsed, n) == elapsed > step * n
\* new_frame > (animations[current_animation].len() - 1) as f64, with
\* new_frame = elapsed.as_millis() as f64 / step: the quotient is not
\* rounded before the comparison
Wraps(elapsed, n) == elapsed > step * (n - 1)

\* index counted from 1 instead of 0
AsUsizeOneBased(elapsed) == elapsed \div step + 1
\* new_frame as usize: truncation
AsUsize(elapsed) == elapsed \div step

\* the index the clock leaves in current_frame
ClockIndex(elapsed, n) == IF Wraps(elapsed, n) THEN 0 ELSE AsUsize(elapsed)

(* --------------------------- input mapping ---------------------------- *)
\* Left tested before Right
MovementLeftFirst(k, anim, fl) ==
    IF k.Left THEN [force |-> <<(<<-Fx, 0>>)>>, anim |-> 1, flip |-> TRUE]
    ELSE IF k.Right THEN [force |-> <<(<<Fx, 0>>)>>, anim |-> 1, flip |-> FALSE]
    ELSE [force |-> <<>>, anim |-> 0, flip |-> fl]
\* the else branch also resets the facing flag
MovementResetsFlip(k, anim, fl) ==
    IF k.Right THEN [force |-> <<(<<Fx, 0>>)>>, anim |-> 1, flip |-> FALSE]
    ELSE IF k.Left THEN [force |-> <<(<<-Fx, 0>>)>>, anim |-> 1, flip |-> TRUE]
    ELSE [force |-> <<>>, anim |-> 0, flip |-> FALSE]
\* no else branch: without a movement key the sequence stays as it was
MovementKeepsAnim(k, anim, fl) ==
    IF k.Right THEN [force |-> <<(<<Fx, 0>>)>>, anim |-> 1, flip |-> FALSE]
    ELSE IF k.Left THEN [force |-> <<(<<-Fx, 0>>)>>, anim |-> 1, flip |-> TRUE]
    ELSE [force |-> <<>>, anim |-> anim, flip |-> fl]
\* Right and Left tested by two separate ifs
MovementBothKeys(k, anim, fl) ==
    [force |-> (IF k.Right THEN <<(<<Fx, 0>>)>> ELSE <<>>)
                 \o (IF k.Left THEN <<(<<-Fx, 0>>)>> ELSE <<>>),
     anim |-> IF k.Right \/ k.Left THEN 1 ELSE 0,
     flip |-> IF k.Left THEN TRUE ELSE IF k.Right THEN FALSE ELSE fl]
\* the if / else if / else chain on Right and Left
Movement(k, anim, fl) ==
    IF k.Right THEN [force |-> <<(<<Fx, 0>>)>>, anim |-> 1, flip |-> FALSE]
    ELSE IF k.Left THEN [force |-> <<(<<-Fx, 0>>)>>, anim |-> 1, flip |-> TRUE]
    ELSE [force |-> <<>>, anim |-> 0, flip |-> fl]

\* jump as a further branch of the movement chain
JumpForceOnlyStanding(k) ==
    IF k.Space /\ ~k.Right /\ ~k.Left THEN <<(<<0, -Fy>>)>> ELSE <<>>
\* if is_key_down(KeyCode::Space)
JumpForce(k) == IF k.Space THEN <<(<<0, -Fy>>)>> ELSE <<>>

\* attack only replaces the idle sequence
AttackSelOnlyIdle(k, anim) == IF k.Z /\ anim = 0 THEN 2 ELSE anim
\* if is_key_down(KeyCode::Z) { current_animation = 2; }
AttackSel(k, anim) == IF k.Z THEN 2 ELSE anim

RECURSIVE ApplyAll(_, _, _, _)
ApplyAll(bs, obj, fs, at) ==
    IF fs = <<>> THEN bs
    ELSE ApplyAll(ApplyForce(bs, obj, Head(fs), at), obj, Tail(fs), at)

\* record of the apply_force calls that put the forces fs on obj
Calls(obj, fs, at) ==
    [i \in 1..Len(fs) |->
        [body |-> obj.body_handle, v |-> fs[i], at |-> at,
         force_type |-> "AccelerationChange"]]

(* --------------------------- the loop body ---------------------------- *)
LoopOrder ==
    <<"step", "debug_draw", "clock", "draw", "move", "jump", "attack", "yield">>

PcAfter(order, p) ==
    LET i == CHOOSE j \in 1..Len(order) : order[j] = p
    IN order[(i % Len(order)) + 1]

\* input handled at the top of the iteration, before step()
NextPcInputFirst(p) ==
    PcAfter(<<"move", "jump", "attack", "step", "debug_draw", "clock", "draw",
              "yield">>, p)
\* the statement that follows p in `loop { ... }`
NextPc(p) == PcAfter(LoopOrder, p)

Init ==
    /\ pc = "step"
    /\ frame = 1
    /\ now = 0
    /\ timeline = 0
    /\ current_frame = 0
    /\ current_animation = 0
    /\ flip = FALSE
    /\ bodies = SetupHero.bodies
    /\ keys \in KeyStates
    /\ steps = 0
    /\ draws = 0
    /\ stepPos = Position(hero, SetupHero.bodies)
    /\ sprite = [texture |-> "none", pos |-> <<0, 0>>, flip |-> FALSE,
                 anim |-> 0, index |-> 0]
    /\ integrated = {}
    /\ wrapped = FALSE
    /\ colliders = SetupHero.colliders
    /\ held = <<keys>>
    /\ applied = <<>>

\* frames in which the forces still queued on the bodies were applied
QueuedTags(bs) ==
    UNION {{bs[h].queued[i].at : i \in 1..Len(bs[h].queued)} : h \in DOMAIN bs}

\* mechanical_world.step(..)
Step ==
    /\ pc = "step"
    /\ bodies' = [h \in DOMAIN bodies |-> Integrate(bodies[h])]
    /\ steps' = steps + 1
    /\ stepPos' = Position(hero, bodies')
    /\ integrated' = integrated \cup {<<t, steps + 1>> : t \in QueuedTags(bodies)}
    /\ pc' = NextPc(pc)
    /\ UNCHANGED <<frame, now, timeline, current_frame, current_animation,
                   flip, keys, draws, sprite, wrapped,
                   colliders, held, applied>>

\* clear_background(WHITE); ground/block/hero.debug_draw(&bodies)
DebugDraw ==
    /\ pc = "debug_draw"
    /\ pc' = NextPc(pc)
    /\ UNCHANGED <<frame, now, timeline, current_frame, current_animation,
                   flip, bodies, keys, steps, draws, stepPos, sprite,
                   integrated, wrapped,
                   colliders, held, applied>>

\* the wrap branch forgets timeline = Instant::now()
ClockKeepsTimeline ==
    /\ pc = "clock"
    /\ current_frame' = ClockIndex(now - timeline, AnimLen(current_animation))
    /\ wrapped' = Wraps(now - timeline, AnimLen(current_animation))
    /\ pc' = NextPc(pc)
    /\ UNCHANGED <<frame, now, timeline, current_animation, flip, bodies, keys,
                   steps, draws, stepPos, sprite, integrated,
                   colliders, held, applied>>

\* let elapsed = timeline.elapsed(); ... if new_frame > len - 1 { timeline =
\* Instant::now(); current_frame = 0 } else { current_frame = new_frame as usize }
Clock ==
    /\ pc = "clock"
    /\ LET elapsed == now - timeline IN
       IF Wraps(elapsed, AnimLen(current_animation))
       THEN \E lag \in 0..MaxLag :
               /\ now' = now + lag
               /\ timeline' = now'
               /\ current_frame' = ClockIndex(elapsed, AnimLen(current_animation))
               /\ wrapped' = TRUE
       ELSE /\ current_frame' = ClockIndex(elapsed, AnimLen(current_animation))
            /\ wrapped' = FALSE
            /\ UNCHANGED <<now, timeline>>
    /\ pc' = NextPc(pc)
    /\ UNCHANGED <<frame, current_animation, flip, bodies, keys, steps, draws,
                   stepPos, sprite, integrated,
                   colliders, held, applied>>

\* let texture = animations[current_animation][current_frame];
\* let pos = hero.rigid_body(&bodies).position()...; draw_texture_ex(..)
\* (an index past the end of the vector panics)
Draw ==
    /\ pc = "draw"
    /\ IF current_frame < AnimLen(current_animation)
       THEN /\ sprite' = [texture |-> animations[current_animation + 1][current_frame + 1],
                          pos |-> Position(hero, bodies), flip |-> flip,
                          anim |-> current_animation, index |-> current_frame]
            /\ draws' = draws + 1
            /\ pc' = NextPc(pc)
       ELSE /\ pc' = "panic"
            /\ UNCHANGED <<sprite, draws>>
    /\ UNCHANGED <<frame, now, timeline, current_frame, current_animation,
                   flip, bodies, keys, steps, stepPos, integrated, wrapped,
                   colliders, held, applied>>

\* the movement force is applied only in the frame the key goes down
MoveEdgeTriggered ==
    /\ pc = "move"
    /\ LET m == Movement(keys, current_animation, flip)
           rising == frame = 1 \/ (~held[frame - 1].Right /\ ~held[frame - 1].Left)
           fs == IF rising THEN m.force ELSE <<>>
       IN
         /\ bodies' = ApplyAll(bodies, hero, fs, frame)
         /\ applied' = applied \o Calls(hero, fs, frame)
         /\ current_animation' = m.anim
         /\ flip' = m.flip
    /\ pc' = NextPc(pc)
    /\ UNCHANGED <<frame, now, timeline, current_frame, keys, steps, draws,
                   stepPos, sprite, integrated, wrapped, colliders, held>>

\* if is_key_down(Right) {..} else if is_key_down(Left) {..} else {..}
Move ==
    /\ pc = "move"
    /\ LET m == Movement(keys, current_animation, flip) IN
         /\ bodies' = ApplyAll(bodies, hero, m.force, frame)
         /\ applied' = applied \o Calls(hero, m.force, frame)
         /\ current_animation' = m.anim
         /\ flip' = m.flip
    /\ pc' = NextPc(pc)
    /\ UNCHANGED <<frame, now, timeline, current_frame, keys, steps, draws,
                   stepPos, sprite, integrated, wrapped, colliders, held>>

\* the Space branch also falls back to the idle sequence
JumpSelectsIdle ==
    /\ pc = "jump"
    /\ bodies' = ApplyAll(bodies, hero, JumpForce(keys), frame)
    /\ applied' = applied \o Calls(hero, JumpForce(keys), frame)
    /\ current_animation' = IF keys.Space THEN 0 ELSE current_animation
    /\ pc' = NextPc(pc)
    /\ UNCHANGED <<frame, now, timeline, current_frame, flip, keys, steps,
                   draws, stepPos, sprite, integrated, wrapped, colliders,
                   held>>

\* if is_key_down(Space) { apply_force (0, -250) }
Jump ==
    /\ pc = "jump"
    /\ bodies' = ApplyAll(bodies, hero, JumpForce(keys), frame)
    /\ applied' = applied \o Calls(hero, JumpForce(keys), frame)
    /\ pc' = NextPc(pc)
    /\ UNCHANGED <<frame, now, timeline, current_frame, current_animation,
                   flip, keys, steps, draws, stepPos, sprite, integrated,
                   wrapped, colliders, held>>

\* a switch to the attack sequence restarts the animation timeline
AttackRestartsTimeline ==
    /\ pc = "attack"
    /\ current_animation' = AttackSel(keys, current_animation)
    /\ timeline' = IF current_animation' # current_animation THEN now ELSE timeline
    /\ current_frame' = IF current_animation' # current_animation THEN 0
                        ELSE current_frame
    /\ pc' = NextPc(pc)
    /\ UNCHANGED <<frame, now, flip, bodies, keys, steps, draws, stepPos,
                   sprite, integrated, wrapped, colliders, held, applied>>

\* if is_key_down(Z) { current_animation = 2 }
Attack ==
    /\ pc = "attack"
    /\ current_animation' = AttackSel(keys, current_animation)
    /\ pc' = NextPc(pc)
    /\ UNCHANGED <<frame, now, timeline, current_frame, flip, bodies, keys,
                   steps, draws, stepPos, sprite, integrated, wrapped,
                   colliders, held, applied>>

\* next_frame().await: the host presents the frame, time passes, the
\* keyboard state of the next frame is collected
Yield ==
    /\ pc = "yield"
    /\ frame < MaxFrames
    /\ frame' = frame + 1
    /\ \E dt \in FrameDeltas : now' = now + dt
    /\ keys' \in KeyStates
    /\ held' = Append(held, keys')
    /\ pc' = NextPc(pc)
    /\ UNCHANGED <<timeline, current_frame, current_animation, flip, bodies,
                   steps, draws, stepPos, sprite, integrated, wrapped,
                   colliders, applied>>

\* the windowing layer signals should-close: the loop is suspended in
\* next_frame().await and is not resumed
Close ==
    /\ pc = "yield"
    /\ pc' = "closed"
    /\ UNCHANGED <<frame, now, timeline, current_frame, current_animation,
                   flip, bodies, keys, steps, draws, stepPos, sprite,
                   integrated, wrapped, colliders, held, applied>>

Next ==
    \/ Step
    \/ DebugDraw
    \/ Clock
    \/ Draw
    \/ Move
    \/ Jump
    \/ Attack
    \/ Yield
    \/ Close

Spec == Init /\ [][Next]_vars

\* the loop body is straight-line code on one thread: a statement that can
\* run does run; only the host decides when a suspended loop is resumed
FairSpec ==
    Spec /\ WF_vars(Step \/ DebugDraw \/ Clock \/ Draw \/ Move \/ Jump \/ Attack)

TypeOK ==
    /\ pc \in {"step", "debug_draw", "clock", "draw", "move", "jump",
               "attack", "yield", "panic", "closed"}
    /\ frame \in 1..(MaxFrames + 1)
    /\ current_animation \in 0..2
    /\ flip \in BOOLEAN
    /\ keys \in KeyStates
    /\ now >= timeline

(* ------------------------------ claims -------------------------------- *)
HeroQueue == bodies[hero.body_handle].queued
HeroStart == Position(hero, SetupHero.bodies)
InRange == current_frame \in 0..(AnimLen(current_animation) - 1)
\* the forces the movement keys select, in the order the code applies them
HorizontalOf(k) ==
    IF k.Right THEN <<[v |-> <<250, 0>>, at |-> frame]>>
    ELSE IF k.Left THEN <<[v |-> <<-250, 0>>, at |-> frame]>>
    ELSE <<>>

\* C1: once the sprite of a frame has been drawn, the position it was drawn
\* at is the hero position produced by that frame's step(), step() has run in
\* that frame, and every force integrated so far was applied in an earlier
\* frame: no force of this frame's input phase is in the drawn position.
C1_DrawUsesThisFramesStep ==
    draws = frame =>
        /\ steps = frame
        /\ sprite.pos = stepPos
        /\ \A p \in integrated : p[1] < frame

\* a second frame whose sprite was drawn at a position moved by the forces of
\* frame 1, while this frame's forces are queued and not integrated
C1_Witness ==
    /\ pc = "yield" /\ frame = 2 /\ draws = 2
    /\ sprite.pos # HeroStart
    /\ HeroQueue # <<>>

\* C2: step() has been called exactly once per iteration; a force is queued
\* only after the sprite of its frame was drawn and while no later step() has
\* run; and every force applied in frame k was integrated by the step() of
\* frame k+1.
C2_OneStepPerFrameAndLatency ==
    /\ steps = IF pc = "step" THEN frame - 1 ELSE frame
    /\ \A t \in QueuedTags(bodies) : t <= draws /\ steps = t
    /\ \A p \in integrated : p[2] = p[1] + 1

\* a force applied in frame 1 has been integrated by the second step()
C2_Witness == <<1, 2>> \in integrated /\ steps = 2 /\ pc = "debug_draw"

\* C3: at every sprite draw the index used for the texture lookup is within
\* the sequence being displayed (the lookup never panics), whatever the
\* elapsed time and the key history; and for the elapsed time of any
\* reachable state a sequence of any length n >= 1 would get an index in
\* [0, n-1], a sequence of length 1 the index 0.
C3_DrawIndexInRange ==
    /\ pc # "panic"
    /\ pc = "draw" => InRange
    /\ draws > 0 => sprite.index \in 0..(AnimLen(sprite.anim) - 1)
    /\ \A n \in 1..5 : ClockIndex(now - timeline, n) \in 0..(n - 1)
    /\ ClockIndex(now - timeline, 1) = 0

\* the run sequence drawn at its last index in the frame after a switch
\* from idle
C3_Witness ==
    /\ pc = "move" /\ frame = 2 /\ draws = 2
    /\ sprite.anim = 1 /\ sprite.index = 4 /\ sprite.texture = "run-05"

\* C4: the clock takes raw = floor(elapsed / step) and wraps only when
\* raw > n - 1: otherwise the index is raw and timeline is not reset.
C4_WrapOnlyPastFloor ==
    [][pc = "clock" =>
         LET raw == (now - timeline) \div 200
             n == AnimLen(current_animation)
         IN IF raw <= n - 1
            THEN current_frame' = raw /\ timeline' = timeline
            ELSE current_frame' = 0 /\ timeline' = now']_vars

\* C5: a clock evaluation with more than n * step elapsed resets timeline to
\* the current time and yields index 0, with less than one frame duration
\* elapsed since the reset; after every clock evaluation the index is within
\* the sequence and the time since the loop start is not past the last frame.
C5_LoopingLaw ==
    [][pc = "clock" =>
         LET n == AnimLen(current_animation) IN
         /\ (now - timeline > n * 200 =>
                /\ timeline' = now'
                /\ current_frame' = 0
                /\ now' - timeline' < 200)
         /\ current_frame' \in 0..(n - 1)
         /\ now' - timeline' <= 200 * (n - 1)]_vars

\* the clock has just wrapped the run sequence after more than 1000 ms
C5_Witness ==
    /\ pc = "draw" /\ wrapped /\ current_animation = 1
    /\ timeline >= 1050 /\ current_frame = 0

\* C6 (as claimed): in every reachable state the stored index is within the
\* active sequence.
C6_IndexAlwaysInActiveRange == InRange

\* C6 (amended): the stored index is within the active sequence from the
\* clock evaluation up to the sequence selection of the input phase, and it
\* is always in [0, 4]; it is outside the active sequence only with index 4
\* and the 4-frame idle sequence, after the input phase and before the next
\* clock evaluation.
C6_IndexInRangeUntilSwitch ==
    /\ pc \in {"draw", "move"} => InRange
    /\ current_frame \in 0..4
    /\ ~InRange =>
          /\ current_frame = 4 /\ current_animation = 0
          /\ pc \in {"jump", "attack", "yield", "closed", "step", "debug_draw",
                    "clock"}

\* the input phase has just replaced the run sequence, drawn at index 4, by
\* idle
C6_Witness ==
    /\ pc = "jump" /\ sprite.anim = 1 /\ sprite.index = 4
    /\ current_animation = 0 /\ current_frame = 4

\* C7: the movement chain with Right held applies exactly (+250, 0) to the
\* hero, selects the run sequence and faces right, also when Left is held;
\* with Left held and Right not, exactly (-250, 0), run, facing left; no
\* leftward force is applied when Right is held.
C7_MovementPriority ==
    [][pc = "move" =>
         LET q == HeroQueue
             q2 == bodies'[hero.body_handle].queued
         IN
         /\ keys.Right =>
               /\ q2 = Append(q, [v |-> <<250, 0>>, at |-> frame])
               /\ current_animation' = 1
               /\ flip' = FALSE
               /\ \A i \in 1..Len(q2) : q2[i].v[1] >= 0
         /\ (keys.Left /\ ~keys.Right) =>
               /\ q2 = Append(q, [v |-> <<-250, 0>>, at |-> frame])
               /\ current_animation' = 1
               /\ flip' = TRUE
         /\ \A h \in DOMAIN bodies :
               h # hero.body_handle => bodies'[h] = bodies[h]]_vars

\* Right and Left both held in a frame that started facing left: the chain
\* has queued (+250, 0) only, selected run and turned right
C7_Witness ==
    /\ pc = "jump" /\ keys.Right /\ keys.Left /\ sprite.flip
    /\ HeroQueue = <<[v |-> <<250, 0>>, at |-> frame]>>
    /\ current_animation = 1 /\ ~flip

\* C8: at the end of the input phase of a frame with attack held the active
\* sequence is attack, and the force selected by the movement keys has been
\* applied in that frame.
C8_AttackOverride ==
    (pc = "yield" /\ keys.Z) =>
        /\ current_animation = 2
        /\ \A i \in 1..Len(HorizontalOf(keys)) :
              \E j \in 1..Len(HeroQueue) : HeroQueue[j] = HorizontalOf(keys)[i]
        /\ (keys.Right => \E j \in 1..Len(HeroQueue) :
                              HeroQueue[j].v = <<250, 0>> /\ HeroQueue[j].at = frame)

\* Right and attack held: attack selected, (+250, 0) queued
C8_Witness ==
    /\ pc = "yield" /\ keys.Z /\ keys.Right /\ ~keys.Space
    /\ current_animation = 2
    /\ HeroQueue = <<[v |-> <<250, 0>>, at |-> frame]>>

\* C9: at the end of the input phase of a frame with jump held, the forces
\* queued on the hero are the horizontal force the movement keys select (if
\* any) followed by (0, -250), all applied in this frame and none yet
\* integrated; jump alone queues (0, -250) only.
C9_JumpStacks ==
    (pc = "yield" /\ keys.Space) =>
        /\ HeroQueue = HorizontalOf(keys) \o <<[v |-> <<0, -250>>, at |-> frame]>>
        /\ steps = frame
        /\ (~keys.Right /\ ~keys.Left) =>
               HeroQueue = <<[v |-> <<0, -250>>, at |-> frame]>>

\* Right and jump held: both forces queued before the next step()
C9_Witness ==
    /\ pc = "yield" /\ keys.Right /\ keys.Space
    /\ Len(HeroQueue) = 2
    /\ HeroQueue[1].v = <<250, 0>> /\ HeroQueue[2].v = <<0, -250>>

\* C10: with neither Right nor Left held the movement chain applies no
\* force, selects idle and leaves flip as it was; the input phase then ends
\* with idle, or attack when Z is held, and with no horizontal force queued;
\* flip is written by no other statement than the chain with Right or Left
\* held.
C10_NoMovementKeys ==
    [][/\ (pc = "move" /\ ~keys.Right /\ ~keys.Left) =>
              /\ bodies' = bodies
              /\ current_animation' = 0
              /\ flip' = flip
       /\ (pc = "attack" /\ ~keys.Right /\ ~keys.Left) =>
              /\ current_animation' = IF keys.Z THEN 2 ELSE 0
              /\ \A i \in 1..Len(HeroQueue) : HeroQueue[i].v[1] = 0
              /\ bodies' = bodies
       /\ flip' # flip => pc = "move" /\ (keys.Right \/ keys.Left)]_vars

\* a frame without movement keys that started facing left: idle selected,
\* nothing queued, still facing left
C10_Witness ==
    /\ pc = "jump" /\ ~keys.Right /\ ~keys.Left
    /\ flip /\ sprite.flip /\ current_animation = 0 /\ HeroQueue = <<>>

(* ------------------------ claims, second part -------------------------- *)
\* the sequence a frame's input phase ends with, by its keys
ExpectedAnim(k) == IF k.Z THEN 2 ELSE IF k.Right \/ k.Left THEN 1 ELSE 0
\* the facing flag after the input phases of a key history
RECURSIVE FacingAfter(_)
FacingAfter(h) ==
    IF h = <<>> THEN FALSE
    ELSE LET k == h[Len(h)] IN
         IF k.Right THEN FALSE
         ELSE IF k.Left THEN TRUE
         ELSE FacingAfter(SubSeq(h, 1, Len(h) - 1))
\* the forces a frame's input phase applies, by its keys
ExpectedForces(k) ==
    (IF k.Right THEN <<(<<250, 0>>)>> ELSE IF k.Left THEN <<(<<-250, 0>>)>> ELSE <<>>)
        \o (IF k.Space THEN <<(<<0, -250>>)>> ELSE <<>>)
\* the apply_force calls of frame k, and their force vectors in call order
CallsOf(k) == {i \in 1..Len(applied) : applied[i].at = k}
ForcesOf(k) ==
    LET InFrame(c) == c.at = k
        cs == SelectSeq(applied, InFrame)
    IN [i \in 1..Len(cs) |-> cs[i].v]
CountOf(k, f) == Cardinality({i \in CallsOf(k) : applied[i].v = f})
\* frames whose input phase is complete
InputDone == {k \in 1..frame : k < frame \/ pc \in {"yield", "closed"}}

\* C11: the statements of the input phase leave timeline and current_frame
\* unchanged whatever the keys are, and timeline changes only in a clock
\* evaluation that takes the wrap branch.
C11_SwitchKeepsTimeline ==
    [][/\ pc \in {"move", "jump", "attack"} =>
              timeline' = timeline /\ current_frame' = current_frame
       /\ timeline' # timeline =>
              /\ pc = "clock"
              /\ now - timeline > 200 * (AnimLen(current_animation) - 1)]_vars

\* the input phase has switched from idle, drawn at index 1, to attack; the
\* loop start and the index are as the clock left them
C11_Witness ==
    /\ pc = "yield" /\ frame = 2 /\ sprite.anim = 0 /\ current_animation = 2
    /\ now = 200 /\ timeline = 0 /\ current_frame = 1

\* C12: in every frame whose input phase is complete, (+250, 0) was applied
\* once if Right was held and not otherwise, (-250, 0) once if Left was held
\* without Right and not otherwise, (0, -250) once if Space was held and not
\* otherwise; the forces of a frame are integrated by the next step() and by
\* no other, so a key held in k consecutive frames gives k applications, one
\* before each of the next k step() calls.
C12_LevelTriggered ==
    /\ \A k \in InputDone :
          /\ CountOf(k, <<250, 0>>) = IF held[k].Right THEN 1 ELSE 0
          /\ CountOf(k, <<-250, 0>>) =
                 IF held[k].Left /\ ~held[k].Right THEN 1 ELSE 0
          /\ CountOf(k, <<0, -250>>) = IF held[k].Space THEN 1 ELSE 0
          /\ \A i \in CallsOf(k) :
                applied[i].v \in {<<250, 0>>, <<-250, 0>>, <<0, -250>>}
    /\ \A k \in 1..frame :
          /\ (CallsOf(k) # {} /\ steps > k) => <<k, k + 1>> \in integrated
          /\ \A p \in integrated : p[1] = k => (p[2] = k + 1 /\ CallsOf(k) # {})

\* Right held in two consecutive frames: two applications of (+250, 0), the
\* first integrated by the second step(), the second queued for the third
C12_Witness ==
    /\ pc = "yield" /\ frame = 2 /\ held[1].Right /\ held[2].Right
    /\ CountOf(1, <<250, 0>>) = 1 /\ CountOf(2, <<250, 0>>) = 1
    /\ <<1, 2>> \in integrated

\* C13 (as claimed): at the end of a frame's input phase the applied forces,
\* the active sequence and the facing flag are those the frame's keys alone
\* determine.  The first frame with the same keys is one of the runs to
\* compare with, so the facing flag has to be what a first frame with these
\* keys ends with.
C13_SnapshotFromKeysAlone ==
    pc = "yield" =>
        /\ ForcesOf(frame) = ExpectedForces(keys)
        /\ current_animation = ExpectedAnim(keys)
        /\ flip = FacingAfter(<<keys>>)

\* C13 (amended): at the end of a frame's input phase the applied forces and
\* the active sequence are those the frame's keys alone determine; the facing
\* flag is determined by the keys when Right or Left is held, and otherwise
\* is the flag the previous frame ended with.
C13_SnapshotFromKeysAndFacing ==
    pc = "yield" =>
        /\ ForcesOf(frame) = ExpectedForces(keys)
        /\ current_animation = ExpectedAnim(keys)
        /\ keys.Right => ~flip
        /\ (keys.Left /\ ~keys.Right) => flip
        /\ (~keys.Left /\ ~keys.Right) =>
               flip = FacingAfter(SubSeq(held, 1, frame - 1))

\* a second frame without keys after a first frame with Left held: idle, no
\* force, facing left where a first frame without keys faces right
C13_Witness ==
    /\ pc = "yield" /\ frame = 2 /\ held[1].Left /\ ~held[1].Right
    /\ keys = [Right |-> FALSE, Left |-> FALSE, Space |-> FALSE, Z |-> FALSE]
    /\ flip /\ current_animation = 0 /\ ForcesOf(2) = <<>>

\* C14: in every state the body set and the collider set hold exactly the
\* three entries inserted at setup, the handles of ground, block and hero are
\* distinct and refer to entries of the sets, each collider is still attached
\* to its entity's body, and no body has been replaced by another.
C14_HandlesLive ==
    /\ Len(bodies) = 3 /\ Len(colliders) = 3
    /\ colliders = SetupHero.colliders
    /\ Cardinality({ground.body_handle, block.body_handle, hero.body_handle}) = 3
    /\ Cardinality({ground.collider_handle, block.collider_handle,
                    hero.collider_handle}) = 3
    /\ \A obj \in {ground, block, hero} :
          /\ obj.body_handle \in DOMAIN bodies
          /\ obj.collider_handle \in DOMAIN colliders
          /\ colliders[obj.collider_handle].body = obj.body_handle
    /\ \A h \in DOMAIN bodies : bodies[h].mass = SetupHero.bodies[h].mass

\* two whole frames with forces applied in both: the three bodies and
\* colliders are still the ones of the setup
C14_Witness ==
    /\ pc = "yield" /\ frame = 2 /\ steps = 2 /\ Len(applied) = 3
    /\ Position(hero, bodies) # HeroStart

\* C15: every started iteration reaches the end-of-frame yield; from the
\* yield the loop either starts the next iteration with step() or is closed;
\* it is closed only from the yield, never part-way through a frame, it never
\* panics, and a closed loop takes no further step.
C15_LoopUntilClosed ==
    /\ (pc = "step" ~> pc = "yield")
    /\ [][pc = "yield" => (pc' = "step" /\ frame' = frame + 1) \/ pc' = "closed"]_vars
    /\ [][pc' = "closed" => pc = "yield"]_vars
    /\ [][pc # "closed"]_vars
    /\ [](pc # "panic")

\* the loop was closed at the boundary of its second frame
C15_Witness ==
    /\ pc = "closed" /\ frame = 2 /\ steps = 2 /\ draws = 2

\* masses of the bodies compared for mass independence
Masses == {1, 10, 150}
\* velocity of a body of mass m, at rest, after apply_force(f) and n steps
RECURSIVE StepTimes(_, _)
StepTimes(b, n) == IF n = 0 THEN b ELSE StepTimes(Integrate(b), n - 1)
VelocityAfter(m, f, n) ==
    LET bs == <<[pos |-> <<0, 0>>, vel |-> <<0, 0>>, mass |-> m, queued |-> <<>>]>>
    IN StepTimes(ApplyForce(bs, [body_handle |-> 1], f, 1)[1], n).vel
\* sum of the force vectors of the calls made before frame k
RECURSIVE SumBefore(_, _)
SumBefore(cs, k) ==
    IF cs = <<>> THEN <<0, 0>>
    ELSE LET r == SumBefore(Tail(cs), k)
             c == Head(cs)
         IN IF c.at < k THEN <<c.v[1] + r[1], c.v[2] + r[2]>> ELSE r

\* C16: every apply_force call of the input phase uses the acceleration-
\* change mode; the hero's velocity is the plain sum of the force vectors
\* integrated so far, with no factor of its mass; and for every force vector
\* the input phase applies in a frame, a body of any other mass given that
\* force and the same number of steps gets the same velocity change as a
\* body of the hero's mass.
C16_MassIndependent ==
    /\ \A i \in 1..Len(applied) : applied[i].force_type = "AccelerationChange"
    /\ bodies[hero.body_handle].vel = SumBefore(applied, steps)
    /\ \A i \in CallsOf(frame) : \A m \in Masses : \A n \in 1..2 :
          VelocityAfter(m, applied[i].v, n)
              = VelocityAfter(bodies[applied[i].body].mass, applied[i].v, n)

\* Right and Space held in frame 1: after the second step() the hero, of
\* mass 75, has velocity (250, -250)
C16_Witness ==
    /\ pc = "debug_draw" /\ steps = 2
    /\ bodies[hero.body_handle].mass = 75
    /\ bodies[hero.body_handle].vel = <<250, -250>>

\* the selection the input phase of the previous frame ended with
PrevAnim == IF frame = 1 THEN 0 ELSE ExpectedAnim(held[frame - 1])
PrevFlip == FacingAfter(SubSeq(held, 1, frame - 1))

\* C17: the sprite of frame k is drawn with the sequence and the facing flag
\* that the input phase of frame k-1 selected (idle, not flipped, in frame
\* 1), whatever keys are held in frame k; and the clock of frame k wraps
\* exactly when the elapsed time exceeds the last frame of that sequence.
C17_SpriteShowsPreviousSelection ==
    [][/\ pc = "draw" =>
              /\ sprite'.anim = PrevAnim
              /\ sprite'.flip = PrevFlip
              /\ sprite'.index \in 0..(Len(animations[PrevAnim + 1]) - 1)
       /\ pc = "clock" =>
              wrapped' = (now - timeline > 200 * (Len(animations[PrevAnim + 1]) - 1))]_vars

\* frame 1 with Left, frame 2 with attack only: the sprite of frame 2 is a
\* run texture, flipped
C17_Witness ==
    /\ pc = "move" /\ frame = 2 /\ held[1].Left /\ ~held[1].Right /\ ~held[1].Z
    /\ keys = [Right |-> FALSE, Left |-> FALSE, Space |-> FALSE, Z |-> TRUE]
    /\ sprite.anim = 1 /\ sprite.flip /\ draws = 2

\* C18: every apply_force call is on the hero body; the ground and the block
\* have no force queued and have not moved; a frame makes at most one call
\* with a horizontal force, at most one with a vertical force, at most two
\* calls.
C18_ForcesOnlyOnHero ==
    /\ \A i \in 1..Len(applied) : applied[i].body = hero.body_handle
    /\ \A obj \in {ground, block} :
          /\ bodies[obj.body_handle].queued = <<>>
          /\ bodies[obj.body_handle].vel = <<0, 0>>
          /\ bodies[obj.body_handle].pos = SetupHero.bodies[obj.body_handle].pos
    /\ \A k \in 1..frame :
          /\ Cardinality({i \in CallsOf(k) : applied[i].v[1] # 0}) <= 1
          /\ Cardinality({i \in CallsOf(k) : applied[i].v[2] # 0}) <= 1
          /\ Cardinality(CallsOf(k)) <= 2

\* all four keys held in two frames: two calls per frame, all on the hero
C18_Witness ==
    /\ pc = "yield" /\ frame = 2
    /\ \A k \in 1..2 : held[k].Right /\ held[k].Left /\ held[k].Space /\ held[k].Z
    /\ Len(applied) = 4

\* C19: the attack statement changes nothing but the active sequence: no
\* force is applied and flip is unchanged; the jump statement applies
\* (0, -250) when Space is held and leaves the active sequence and flip
\* unchanged; flip changes only in a frame where Right or Left is held.
C19_JumpAttackDisjointFromFacing ==
    [][/\ pc = "attack" =>
              /\ bodies' = bodies /\ applied' = applied /\ flip' = flip
              /\ keys.Z => current_animation' = 2
       /\ pc = "jump" =>
              /\ current_animation' = current_animation /\ flip' = flip
              /\ keys.Space =>
                    applied' = Append(applied,
                        [body |-> hero.body_handle, v |-> <<0, -250>>,
                         at |-> frame, force_type |-> "AccelerationChange"])
              /\ ~keys.Space => applied' = applied /\ bodies' = bodies
       /\ flip' # flip => (keys.Right \/ keys.Left)]_vars

\* Space and attack held, no movement key, in a frame that started facing
\* left: attack selected, (0, -250) queued, still facing left
C19_Witness ==
    /\ pc = "yield"
    /\ keys = [Right |-> FALSE, Left |-> FALSE, Space |-> TRUE, Z |-> TRUE]
    /\ flip /\ current_animation = 2
    /\ HeroQueue = <<[v |-> <<0, -250>>, at |-> frame]>>

=============================================================================
